---- MODULE Spec2Model ----
(***************************************************************************)
(* Model of the spectral-matching tool: the Spectrum data model with its   *)
(* two factories (from_jdx, from_csv), the absorbance accessor and the     *)
(* in-place conversion, the linear baseline correction, and the            *)
(* orchestration of analyze_spectrum.                                      *)
(*                                                                         *)
(* Text is a sequence of symbols.  A symbol is one character ("C", "2",    *)
(* " ", "\t", "=", ",", ".") or a keyword written as one symbol ("##",     *)
(* "MOLFORM", "ABSORBANCE", ...).  Numbers are integers; the non-finite    *)
(* floating-point results (nan, inf) are the single value NaN.             *)
(* An Optional field is <<>> for None and <<v>> for a value v.             *)
(***************************************************************************)
EXTENDS Integers, Sequences, FiniteSets, TLC

(***************************************************************************)
(* Text helpers (Python str methods).                                      *)
(***************************************************************************)
None == <<>>

Some(v) == <<v>>

Whitespace == {" ", "\t"}

Digit == {"0", "1", "2", "3", "4", "5", "6", "7", "8", "9"}

\* Python evaluates an argument once, before the call: Op on the value of v
ByValue(v, Op(_)) == CHOOSE r \in {Op(x) : x \in {v}} : TRUE

Last(t) == t[Len(t)]

Front(t) == SubSeq(t, 1, Len(t) - 1)

RECURSIVE LStrip(_)
LStrip(t) ==
    IF t = <<>> THEN t
    ELSE IF Head(t) \in Whitespace THEN LStrip(Tail(t)) ELSE t

RECURSIVE RStrip(_)
RStrip(t) ==
    IF t = <<>> THEN t
    ELSE IF Last(t) \in Whitespace THEN RStrip(Front(t)) ELSE t

\* str.strip(): drops leading and trailing whitespace of every kind
Strip(t) == RStrip(LStrip(t))

\* str.replace(" ", ""): drops the space character only
ReplaceSpace(t) == SelectSeq(t, LAMBDA c : c # " ")

UpperSym(c) ==
    CASE c = "absorbance" -> "ABSORBANCE"
      [] c = "transmittance" -> "TRANSMITTANCE"
      [] c = "molform" -> "MOLFORM"
      [] c = "title" -> "TITLE"
      [] OTHER -> c

\* str.upper()
Upper(t) == [i \in 1..Len(t) |-> UpperSym(t[i])]

\* index of the first occurrence of symbol c in t, 0 when absent
RECURSIVE IndexOf(_, _, _)
IndexOf(t, c, i) ==
    IF i > Len(t) THEN 0
    ELSE IF t[i] = c THEN i ELSE IndexOf(t, c, i + 1)

\* str.split(sep): the fields between the separators, empty fields kept
RECURSIVE SplitOn(_, _)
SplitOn(t, sep) ==
    LET i == IndexOf(t, sep, 1)
    IN IF i = 0 THEN <<t>>
       ELSE <<SubSeq(t, 1, i - 1)>> \o SplitOn(SubSeq(t, i + 1, Len(t)), sep)

\* str.split(): the maximal runs of non-whitespace symbols
RECURSIVE SplitWs(_)
SplitWs(t) ==
    LET u == LStrip(t)
        RECURSIVE RunEnd(_)
        RunEnd(i) == IF i > Len(u) \/ u[i] \in Whitespace THEN i - 1
                     ELSE RunEnd(i + 1)
    IN IF u = <<>> THEN <<>>
       ELSE <<SubSeq(u, 1, RunEnd(1))>> \o SplitWs(SubSeq(u, RunEnd(1) + 1, Len(u)))

(***************************************************************************)
(* Number parsing (Python float() and int()).                              *)
(***************************************************************************)
DigitVal(c) ==
    CASE c = "0" -> 0 [] c = "1" -> 1 [] c = "2" -> 2 [] c = "3" -> 3
      [] c = "4" -> 4 [] c = "5" -> 5 [] c = "6" -> 6 [] c = "7" -> 7
      [] c = "8" -> 8 [] c = "9" -> 9

IsDigits(t) == t # <<>> /\ \A i \in 1..Len(t) : t[i] \in Digit

RECURSIVE DigitsVal(_)
DigitsVal(t) ==
    IF t = <<>> THEN 0 ELSE 10 * DigitsVal(Front(t)) + DigitVal(Last(t))

Unsigned(t) == IF t # <<>> /\ Head(t) = "-" THEN Tail(t) ELSE t

Sign(t) == IF t # <<>> /\ Head(t) = "-" THEN -1 ELSE 1

\* int(text): surrounding whitespace allowed, then an optional sign and digits
IntOk(t) == IsDigits(Unsigned(Strip(t)))

IntOf(t) == Sign(Strip(t)) * DigitsVal(Unsigned(Strip(t)))

\* the digits before the decimal point of a float literal
IntPart(t) ==
    LET i == IndexOf(t, ".", 1) IN IF i = 0 THEN t ELSE SubSeq(t, 1, i - 1)

\* the digits after the decimal point ("" when there is no point)
FracPart(t) ==
    LET i == IndexOf(t, ".", 1) IN IF i = 0 THEN <<>> ELSE SubSeq(t, i + 1, Len(t))

\* float(text): as int(), with an optional fraction.  Values are integers, so
\* a fraction is representable only when all its digits are "0".
FloatOk(t) ==
    LET u == Unsigned(Strip(t))
    IN /\ IsDigits(IntPart(u))
       /\ \A i \in 1..Len(FracPart(u)) : FracPart(u)[i] = "0"

FloatOf(t) ==
    LET u == Unsigned(Strip(t)) IN Sign(Strip(t)) * DigitsVal(IntPart(u))

(***************************************************************************)
(* Configuration (config.py).                                              *)
(***************************************************************************)
required_fields_in_jdx == <<"title", "molform", "yunits", "firstx", "deltax", "npoints">>

header_size_in_csv == 1

baseline_correction_minpoints == 50

\* baseline_correction_fraction = 0.20, kept as a percentage
baseline_correction_percent == 20

(***************************************************************************)
(* The Spectrum dataclass.                                                 *)
(***************************************************************************)
FloatFields == {"xfactor", "yfactor", "deltax", "firstx", "lastx", "firsty",
                "maxx", "minx", "maxy", "miny"}

IntFields == {"npoints"}

\* Spectrum(): every metadata field None, x and y empty
NewSpectrum ==
    [title |-> None, data_type |-> None, cas_registry_no |-> None,
     molform |-> None, state |-> None, xunits |-> None, yunits |-> None,
     xfactor |-> None, yfactor |-> None, deltax |-> None, firstx |-> None,
     lastx |-> None, firsty |-> None, maxx |-> None, minx |-> None,
     maxy |-> None, miny |-> None, npoints |-> None,
     x |-> <<>>, y |-> <<>>]

\* a factory's outcome: the spectrum returned, or the error raised
Returned(s) == [ok |-> TRUE, s |-> s, kind |-> "none", arg |-> <<>>]

Raised(kind, arg) == [ok |-> FALSE, s |-> NewSpectrum, kind |-> kind, arg |-> arg]

(***************************************************************************)
(* Spectrum.from_jdx                                                       *)
(***************************************************************************)
keymap ==
    (<<"TITLE">> :> "title") @@ (<<"DATA", " ", "TYPE">> :> "data_type") @@
    (<<"CAS", " ", "REGISTRY", " ", "NO">> :> "cas_registry_no") @@
    (<<"MOLFORM">> :> "molform") @@ (<<"STATE">> :> "state") @@
    (<<"XUNITS">> :> "xunits") @@ (<<"YUNITS">> :> "yunits") @@
    (<<"XFACTOR">> :> "xfactor") @@ (<<"YFACTOR">> :> "yfactor") @@
    (<<"DELTAX">> :> "deltax") @@ (<<"FIRSTX">> :> "firstx") @@
    (<<"LASTX">> :> "lastx") @@ (<<"FIRSTY">> :> "firsty") @@
    (<<"MAXX">> :> "maxx") @@ (<<"MINX">> :> "minx") @@
    (<<"MAXY">> :> "maxy") @@ (<<"MINY">> :> "miny") @@
    (<<"NPOINTS">> :> "npoints")

\* line.startswith("##") and "=" in line
IsHeaderLine(line) ==
    line # <<>> /\ Head(line) = "##" /\ IndexOf(line, "=", 1) # 0

\* label, val = line[2:].split("=", 1); label.strip().upper()
HeaderLabel(line) ==
    LET rest == Tail(line)
    IN Upper(Strip(SubSeq(rest, 1, IndexOf(rest, "=", 1) - 1)))

\* ... val.strip()
HeaderVal(line) ==
    LET rest == Tail(line)
    IN Strip(SubSeq(rest, IndexOf(rest, "=", 1) + 1, Len(rest)))

\* line and line[0].isdigit()
IsDataLine(line) == line # <<>> /\ Head(line) \in Digit

\* the scan state: the spectrum being filled, the y values collected so far,
\* and whether a conversion has raised ValueError
ScanStart == [s |-> NewSpectrum, y_vals |-> <<>>, raised |-> FALSE]

\* the header branch of the loop body, lines 75-86
ScanHeader(st, line) ==
    LET label == HeaderLabel(line)
        val == HeaderVal(line)
    IN IF label \notin DOMAIN keymap THEN st
       ELSE LET key == keymap[label]
            IN IF key \in FloatFields
               THEN IF FloatOk(val)
                    THEN [st EXCEPT !.s[key] = Some(FloatOf(val))]
                    ELSE [st EXCEPT !.raised = TRUE]
               ELSE IF key \in IntFields
               THEN IF IntOk(val)
                    THEN [st EXCEPT !.s[key] = Some(IntOf(val))]
                    ELSE [st EXCEPT !.raised = TRUE]
               ELSE [st EXCEPT !.s[key] = Some(val)]

\* the data branch of the loop body, lines 89-93
ScanData(st, line) ==
    LET parts == SplitWs(line)
        ys == Tail(parts)
    IN IF \E i \in 1..Len(ys) : ~FloatOk(ys[i])
       THEN [st EXCEPT !.raised = TRUE]
       ELSE [st EXCEPT !.y_vals = @ \o [i \in 1..Len(ys) |-> FloatOf(ys[i])]]

\* one iteration of "for line in f"
ScanLine(st, raw) ==
    LET line == Strip(raw)
        st1 == IF IsHeaderLine(line) THEN ScanHeader(st, line) ELSE st
    IN IF st1.raised THEN st1
       ELSE IF IsDataLine(line) THEN ScanData(st1, line) ELSE st1

RECURSIVE ScanLines(_, _)
ScanLines(st, lines) ==
    IF lines = <<>> \/ st.raised THEN st
    ELSE ByValue(ScanLine(st, Head(lines)), LAMBDA nxt : ScanLines(nxt, Tail(lines)))

\* not getattr(s, key): None, a numeric zero and an empty string are falsy
Falsy(s, key) ==
    IF s[key] = None THEN TRUE
    ELSE IF key \in FloatFields \cup IntFields THEN s[key][1] = 0
    ELSE s[key][1] = <<>>

\* lines 99-101: the first key of the required list that fails the test, as a
\* one-element sequence, or <<>> when none fails
RECURSIVE FirstMissing(_, _)
FirstMissing(s, required) ==
    IF required = <<>> THEN <<>>
    ELSE IF Falsy(s, Head(required)) THEN <<Head(required)>>
    ELSE FirstMissing(s, Tail(required))

\* line 104: s.molform.replace(" ", "")
CleanMolform(m) == ReplaceSpace(m)

\* line 107: np.arange(npoints) * deltax + firstx
GenerateX(npoints, deltax, firstx) ==
    [i \in 1..npoints |-> (i - 1) * deltax + firstx]

\* the array checks without the comparison of the two lengths
CheckArraysNoMismatch(x, y) ==
    IF Len(x) = 0 THEN "x_empty"
    ELSE IF Len(y) = 0 THEN "y_empty"
    ELSE "ok"

\* lines 109-114: the array checks, "ok" when all pass
CheckArrays(x, y) ==
    IF Len(x) = 0 THEN "x_empty"
    ELSE IF Len(y) = 0 THEN "y_empty"
    ELSE IF Len(x) # Len(y) THEN "mismatch"
    ELSE "ok"

\* lines 117-118
ApplyYFactor(s) ==
    IF s.yfactor # None /\ s.yfactor[1] # 1
    THEN [s EXCEPT !.y = [i \in 1..Len(s.y) |-> s.y[i] * s.yfactor[1]]]
    ELSE s

\* the state of the scan at the end of the file (or where a conversion raised)
ScanOf(lines) == ScanLines(ScanStart, lines)

\* lines 96-120 on the state the scan ended in
FinishJdx(st) ==
    LET s1 == [st.s EXCEPT !.y = st.y_vals]
        missing == FirstMissing(s1, required_fields_in_jdx)
        s2 == [s1 EXCEPT !.molform = Some(CleanMolform(s1.molform[1]))]
        s3 == [s2 EXCEPT !.x = GenerateX(s2.npoints[1], s2.deltax[1], s2.firstx[1])]
        chk == CheckArrays(s3.x, s3.y)
    IN IF st.raised THEN Raised("ValueError", <<>>)
       ELSE IF missing # <<>> THEN Raised("missing", missing)
       ELSE IF chk # "ok" THEN Raised(chk, <<>>)
       ELSE Returned(ApplyYFactor(s3))

from_jdx(lines) == ByValue(ScanOf(lines), FinishJdx)

(***************************************************************************)
(* Spectrum.from_csv                                                       *)
(***************************************************************************)
\* the two data-row checks of the loop body, lines 143-151: "ok", or the
\* error raised for this (stripped, non-blank) row
CheckRow(line) ==
    LET parts == SplitOn(line, ",")
    IN IF Len(parts) < 2 THEN "row_columns"
       ELSE IF ~FloatOk(parts[1]) \/ ~FloatOk(parts[2]) THEN "row_nonnumeric"
       ELSE "ok"

\* the read state: the values collected, the error raised and its row text
ReadStart == [x_vals |-> <<>>, y_vals |-> <<>>, kind |-> "ok", row |-> <<>>]

\* one iteration of "for line in f", lines 138-154
ReadRow(st, raw) ==
    LET line == Strip(raw)
        parts == SplitOn(line, ",")
    IN IF line = <<>> THEN st
       ELSE IF CheckRow(line) # "ok"
       THEN [st EXCEPT !.kind = CheckRow(line), !.row = line]
       ELSE [st EXCEPT !.x_vals = Append(@, FloatOf(parts[1])),
                       !.y_vals = Append(@, FloatOf(parts[2]))]

RECURSIVE ReadRows(_, _)
ReadRows(st, lines) ==
    IF lines = <<>> \/ st.kind # "ok" THEN st
    ELSE ByValue(ReadRow(st, Head(lines)), LAMBDA nxt : ReadRows(nxt, Tail(lines)))

\* for _ in range(header_size): next(f, None)
SkipHeader(lines, header_size) ==
    IF header_size >= Len(lines) THEN <<>>
    ELSE SubSeq(lines, header_size + 1, Len(lines))

RECURSIVE MaxOf(_)
MaxOf(t) ==
    IF Len(t) = 1 THEN t[1]
    ELSE IF Head(t) >= MaxOf(Tail(t)) THEN Head(t) ELSE MaxOf(Tail(t))

RECURSIVE MinOf(_)
MinOf(t) ==
    IF Len(t) = 1 THEN t[1]
    ELSE IF Head(t) <= MinOf(Tail(t)) THEN Head(t) ELSE MinOf(Tail(t))

\* a non-empty text is truthy ("if name:", "if molform:")
TruthyText(o) == o # None /\ o[1] # <<>>

\* lines 165-166: the override is stored as given
OverrideMolform(s, molform) ==
    IF TruthyText(molform) THEN [s EXCEPT !.molform = molform] ELSE s

\* lines 157-177 on the collected values; stem is the file's base name without
\* its extension
AssignFields(x_vals, y_vals, stem, name, molform) ==
    LET s1 == [NewSpectrum EXCEPT !.x = x_vals, !.y = y_vals,
                   !.title = IF TruthyText(name) THEN name ELSE Some(stem)]
        s2 == OverrideMolform(s1, molform)
    IN [s2 EXCEPT !.maxx = Some(MaxOf(x_vals)), !.minx = Some(MinOf(x_vals)),
                  !.maxy = Some(MaxOf(y_vals)), !.miny = Some(MinOf(y_vals)),
                  !.firstx = Some(x_vals[1]), !.lastx = Some(Last(x_vals)),
                  !.firsty = Some(y_vals[2]), !.npoints = Some(Len(x_vals)),
                  !.xunits = Some(<<"1/cm">>), !.yunits = Some(<<"ABSORBANCE">>)]

\* lines 156-179 on the state the read loop ended in
FinishCsv(st, stem, name, molform) ==
    IF st.kind # "ok" THEN Raised(st.kind, st.row)
    ELSE IF st.x_vals = <<>> THEN Raised("ValueError", <<>>)   \* max([])
    ELSE IF Len(st.y_vals) < 2 THEN Raised("IndexError", <<>>) \* y_vals[1]
    ELSE Returned(AssignFields(st.x_vals, st.y_vals, stem, name, molform))

from_csv(stem, lines, name, molform, header_size) ==
    ByValue(ReadRows(ReadStart, SkipHeader(lines, header_size)),
            LAMBDA st : FinishCsv(st, stem, name, molform))

(***************************************************************************)
(* Floating-point values: integers, and NaN for every non-finite result.   *)
(***************************************************************************)
NaN == -1000000

FAdd(a, b) == IF a = NaN \/ b = NaN THEN NaN ELSE a + b

FSub(a, b) == IF a = NaN \/ b = NaN THEN NaN ELSE a - b

FMul(a, b) == IF a = NaN \/ b = NaN THEN NaN ELSE a * b

\* numpy division: a zero divisor gives nan or inf (a warning, no exception);
\* otherwise the quotient, exact whenever b divides a
FDiv(a, b) == IF a = NaN \/ b = NaN \/ b = 0 THEN NaN ELSE a \div b

RECURSIVE FSum(_)
FSum(t) == IF t = <<>> THEN 0 ELSE FAdd(Head(t), FSum(Tail(t)))

\* np.mean
Mean(t) == FDiv(FSum(t), Len(t))

\* epsilon = 1e-12, as its decimal exponent
epsilon_exponent == 12

RECURSIVE Log10Floor(_)
Log10Floor(v) == IF v < 10 THEN 0 ELSE 1 + Log10Floor(v \div 10)

\* -np.log10(np.maximum(v, epsilon)): exact on 0 and on the powers of ten,
\* rounded to an integer elsewhere
NegLog10(v) ==
    IF v = NaN THEN NaN
    ELSE IF v <= 0 THEN epsilon_exponent
    ELSE -Log10Floor(v)

(***************************************************************************)
(* Spectrum.get_y_absorbance, convert_to_absorbance, correct_linear_baseline *)
(***************************************************************************)
\* self.yunits.strip().upper()
UnitTag(yunits) == Upper(Strip(yunits[1]))

\* the accessor: the values returned, or the error raised; self is not changed
get_y_absorbance(self) ==
    IF self.yunits = None THEN [ok |-> FALSE, y |-> <<>>, kind |-> "unset"]
    ELSE IF UnitTag(self.yunits) = <<"ABSORBANCE">>
    THEN [ok |-> TRUE, y |-> self.y, kind |-> "none"]
    ELSE IF UnitTag(self.yunits) = <<"TRANSMITTANCE">>
    THEN [ok |-> TRUE, y |-> [i \in 1..Len(self.y) |-> NegLog10(self.y[i])],
          kind |-> "none"]
    ELSE [ok |-> FALSE, y |-> <<>>, kind |-> "unsupported"]

\* the conversion with the update of the unit tag (line 235) left out
convert_keeps_unit_tag(self) ==
    IF self.yunits = None THEN [ok |-> FALSE, self |-> self, kind |-> "unset"]
    ELSE IF UnitTag(self.yunits) = <<"TRANSMITTANCE">>
    THEN [ok |-> TRUE,
          self |-> [self EXCEPT !.y = [i \in 1..Len(self.y) |-> NegLog10(self.y[i])]],
          kind |-> "none"]
    ELSE [ok |-> TRUE, self |-> self, kind |-> "none"]

\* the in-place conversion: self afterwards, and the error raised if any.  An
\* unrecognised unit falls off the end of the method: nothing raised, nothing
\* changed.
convert_to_absorbance(self) ==
    IF self.yunits = None THEN [ok |-> FALSE, self |-> self, kind |-> "unset"]
    ELSE IF UnitTag(self.yunits) = <<"ABSORBANCE">>
    THEN [ok |-> TRUE, self |-> self, kind |-> "none"]
    ELSE IF UnitTag(self.yunits) = <<"TRANSMITTANCE">>
    THEN [ok |-> TRUE,
          self |-> [self EXCEPT !.y = [i \in 1..Len(self.y) |-> NegLog10(self.y[i])],
                                !.yunits = Some(<<"ABSORBANCE">>)],
          kind |-> "none"]
    ELSE [ok |-> TRUE, self |-> self, kind |-> "none"]

MaxInt(a, b) == IF a >= b THEN a ELSE b

MinInt(a, b) == IF a <= b THEN a ELSE b

\* max(int(baseline_correction_fraction * npoints), minpoints)
EdgePoints(npoints) ==
    MaxInt((baseline_correction_percent * npoints) \div 100,
           baseline_correction_minpoints)

\* t[:n]
FirstN(t, n) == SubSeq(t, 1, MinInt(n, Len(t)))

\* t[-n:]
LastN(t, n) == SubSeq(t, MaxInt(1, Len(t) - n + 1), Len(t))

\* lines 215-220 on a spectrum whose accessor succeeds
SubtractBaseline(self) ==
    LET points == EdgePoints(self.npoints[1])
        ya == get_y_absorbance(self).y
        x1 == self.x[1]
        x2 == Last(self.x)
        y1 == Mean(FirstN(ya, points))
        y2 == Mean(LastN(ya, points))
        grad == FDiv(FSub(y2, y1), FSub(x2, x1))
        intercept == FSub(y1, FMul(grad, x1))
    IN [self EXCEPT !.y = [i \in 1..Len(self.y) |->
            FSub(self.y[i], FAdd(FMul(grad, self.x[i]), intercept))]]

correct_linear_baseline(self) ==
    LET c == convert_to_absorbance(self)
    IN IF ~c.ok THEN c
       ELSE IF ~get_y_absorbance(c.self).ok
       THEN [ok |-> FALSE, self |-> c.self, kind |-> get_y_absorbance(c.self).kind]
       ELSE [ok |-> TRUE, self |-> SubtractBaseline(c.self), kind |-> "none"]

(***************************************************************************)
(* analyze_spectrum (utils.py) and its helpers.                            *)
(***************************************************************************)
\* np.clip(m, 0, None): nan stays nan
Clip(m) == [i \in 1..Len(m) |-> IF m[i] # NaN /\ m[i] < 0 THEN 0 ELSE m[i]]

\* lines 85-86
ClampPolicy(m, clamp) == IF clamp THEN Clip(m) ELSE m

\* "if ref_multiplier:" / "if selected_ref_names:": None and [] are falsy
TruthyList(o) == o # None /\ o[1] # <<>>

\* lines 58-68: TRUE when the configuration is rejected with ValueError
ValidationFails(mult, names) ==
    /\ TruthyList(mult)
    /\ \/ ~TruthyList(names)
       \/ Len(mult[1]) # Len(names[1])

InList(m, names) == \E i \in 1..Len(names) : names[i] = m

\* lines 70-71: the references whose molform is in the allowlist, in the order
\* of ref_data
FilterRefs(refs, names) ==
    IF TruthyList(names)
    THEN SelectSeq(refs, LAMBDA r : r.molform # None /\ InList(r.molform[1], names[1]))
    ELSE refs

\* line 104: zip(ref_data, ref_multiplier) stops at the shorter of the two
Zip(refs, mult) ==
    [i \in 1..MinInt(Len(refs), Len(mult)) |-> [ref |-> refs[i], mult |-> mult[i]]]

\* a > b on floats: every comparison with nan is false
FGreater(a, b) == a # NaN /\ b # NaN /\ a > b

\* insert p behind every pair whose multiplier is not smaller than p's
RECURSIVE InsertDesc(_, _)
InsertDesc(sorted, p) ==
    IF sorted = <<>> THEN <<p>>
    ELSE IF FGreater(p.mult, Head(sorted).mult) THEN <<p>> \o sorted
    ELSE <<Head(sorted)>> \o InsertDesc(Tail(sorted), p)

\* a descending sort that takes the pairs from the back, which puts pairs with
\* equal multipliers in reverse order
RECURSIVE SortTiesReversed(_)
SortTiesReversed(pairs) ==
    IF pairs = <<>> THEN <<>>
    ELSE InsertDesc(SortTiesReversed(Tail(pairs)), Head(pairs))

\* line 105: ref_pairs.sort(key=lambda p: p[1], reverse=True), a stable sort
RECURSIVE SortDesc(_)
SortDesc(pairs) ==
    IF pairs = <<>> THEN <<>>
    ELSE InsertDesc(SortDesc(Front(pairs)), Last(pairs))

HasNaN(t) == \E i \in 1..Len(t) : t[i] = NaN

\* the values a solved multiplier takes in the model
SolveRange == {-2, 0, 3}

\* np.linalg.lstsq(A, y) for n references: some vector of n multipliers; the
\* solver does not validate its input, and a nan in y makes every multiplier
\* nan
LstsqOutcomes(n, y) ==
    IF HasNaN(y) THEN {[i \in 1..n |-> NaN]} ELSE [1..n -> SolveRange]

\* the fit with the clamp moved behind the branch, so that it also runs on
\* manual multipliers
ResolveFitClampsManual(cfg_mult, clamp, solved) ==
    IF cfg_mult = None
    THEN [ref_multiplier |-> Some(ClampPolicy(solved, clamp)),
          r2 |-> Some("computed"), solves |-> 1]
    ELSE [ref_multiplier |-> Some(ClampPolicy(cfg_mult[1], clamp)),
          r2 |-> None, solves |-> 0]

\* lines 76-90: ref_multiplier, r2 and the number of solves after the mode is
\* resolved; solved is the vector lstsq returned
ResolveFit(cfg_mult, clamp, solved) ==
    IF cfg_mult = None
    THEN [ref_multiplier |-> Some(ClampPolicy(solved, clamp)),
          r2 |-> Some("computed"), solves |-> 1]
    ELSE [ref_multiplier |-> cfg_mult, r2 |-> None, solves |-> 0]

\* interpolate_to raises for a reference whose accessor raises
SomeRefUnreadable(refs) == \E i \in 1..Len(refs) : ~get_y_absorbance(refs[i]).ok

(***************************************************************************)
(* State.                                                                  *)
(***************************************************************************)
VARIABLES
    config,          \* config.py: ref_multiplier, selected_ref_names, flags
    ref_files,       \* the *.jdx files of ref_path, in the order glob lists them
    samples,         \* the Spectrum objects passed to analyze_spectrum
    pc,              \* position in analyze_spectrum
    ref_data,        \* analyze_spectrum's local ref_data
    k,               \* number of samples the loop has finished
    ref_multiplier,  \* analyze_spectrum's local ref_multiplier
    r2,              \* analyze_spectrum's local r2
    ref_pairs,       \* the sorted (reference, multiplier) pairs of the last sample
    err,             \* the exception that ended analyze_spectrum, "none" if none
    loads,           \* number of from_jdx calls made by get_references
    solves,          \* number of np.linalg.lstsq calls
    file,            \* the file handed to a factory
    out,             \* what the factory returned or raised
    sp,              \* a Spectrum object whose methods are called
    calls            \* the method calls made on sp, oldest first

vars == <<config, ref_files, samples, pc, ref_data, k, ref_multiplier, r2,
          ref_pairs, err, loads, solves, file, out, sp, calls>>

analysisVars == <<config, ref_files, samples, pc, ref_data, k, ref_multiplier,
                  r2, ref_pairs, err, loads, solves>>

(***************************************************************************)
(* Bounds and input files.                                                 *)
(***************************************************************************)
MaxRefs == 2

MaxSamples == 2

MaxRows == 2

MaxCalls == 3

\* a header line ##LABEL=value
H(label, val) == <<"##", label, "=">> \o val

CO2 == <<"C", "O", "2">>

H2O == <<"H", "2", "O">>

N2O == <<"N", "2", "O">>

\* a well-formed header for a spectrum of n points starting at x = 1
JdxHeader(molform, yunits, n) ==
    <<H("TITLE", <<"A">>), H("MOLFORM", molform), H("YUNITS", yunits),
      H("FIRSTX", <<"1">>), H("DELTAX", <<"1">>), H("NPOINTS", n)>>

RefCO2 == JdxHeader(<<"C", " ", "O", "2">>, <<"ABSORBANCE">>, <<"2">>)
              \o << <<"1", " ", "1", " ", "2">> >>

RefH2O == JdxHeader(H2O, <<"transmittance">>, <<"2">>)
              \o << <<"1", " ", "1", "0", " ", "1">> >>

RefOddUnit == JdxHeader(N2O, <<"KUBELKA">>, <<"2">>)
              \o << <<"1", " ", "1", " ", "1">> >>

RefNoMolform == <<H("TITLE", <<"A">>), H("YUNITS", <<"ABSORBANCE">>),
                  H("FIRSTX", <<"1">>), H("DELTAX", <<"1">>),
                  H("NPOINTS", <<"1">>), <<"1", " ", "1">> >>

RefFilePool == {RefCO2, RefH2O, RefOddUnit, RefNoMolform}

\* sequences of at most n distinct elements of S
DistinctSeqs(S, n) ==
    UNION {{q \in [1..m -> S] : \A i, j \in 1..m : i # j => q[i] # q[j]} : m \in 0..n}

SeqsUpTo(S, lo, hi) == UNION {[1..m -> S] : m \in lo..hi}

\* sample files: a three-row table, a one-point structured file and a file
\* with an unsupported unit
SampleCsv == << <<"wavenumber", ",", "absorbance">>, <<"1", ",", "0">>,
                <<"2", ",", "3">>, <<"3", ",", "0">> >>

SampleOnePoint == JdxHeader(<<"X">>, <<"ABSORBANCE">>, <<"1">>) \o << <<"1", " ", "2">> >>

SampleOddUnit == JdxHeader(<<"X">>, <<"KUBELKA">>, <<"2">>)
                           \o << <<"1", " ", "1", " ", "1">> >>

SamplePool ==
    {from_csv(<<"s">>, SampleCsv, None, None, header_size_in_csv).s}
    \cup {from_jdx(f).s : f \in {SampleOnePoint, SampleOddUnit}}

MultiplierLists == {None, Some(<<>>), Some(<<-3, 5>>), Some(<<2, 2>>)}

NameLists == {None, Some(<<CO2>>), Some(<<CO2, H2O>>), Some(<<H2O, CO2>>),
              Some(<<H2O, N2O>>)}

Configs ==
    [ref_multiplier : MultiplierLists, selected_ref_names : NameLists,
     clamp_negative_multipliers : BOOLEAN, baseline_correction_use : BOOLEAN]

Pending == Raised("pending", <<>>)

NoFile == [fmt |-> "none", stem |-> <<>>, lines |-> <<>>, name |-> None,
           molform |-> None, header_size |-> 0]

(***************************************************************************)
(* analyze_spectrum as a state machine.                                    *)
(***************************************************************************)
Init ==
    /\ config \in Configs
    /\ ref_files \in DistinctSeqs(RefFilePool, MaxRefs)
    /\ samples \in SeqsUpTo(SamplePool, 1, MaxSamples)
    /\ pc = "start"
    /\ ref_data = <<>>
    /\ k = 0
    /\ ref_multiplier = None
    /\ r2 = None
    /\ ref_pairs = <<>>
    /\ err = "none"
    /\ loads = 0
    /\ solves = 0
    /\ file = NoFile
    /\ out = Pending
    /\ sp = NewSpectrum
    /\ calls = <<>>

\* index of the first file from_jdx rejects, 0 when all load
RECURSIVE FirstRejected(_, _)
FirstRejected(files, i) ==
    IF i > Len(files) THEN 0
    ELSE IF ~from_jdx(files[i]).ok THEN i ELSE FirstRejected(files, i + 1)

\* lines 54-56 with get_references (lines 20-28): the configuration is read and
\* every reference file is parsed
GetReferences ==
    /\ pc = "start"
    /\ ref_multiplier' = config.ref_multiplier
    /\ IF ref_files = <<>>
       THEN /\ pc' = "exit"
            /\ err' = "SystemExit"
            /\ UNCHANGED <<ref_data, loads>>
       ELSE IF FirstRejected(ref_files, 1) # 0
       THEN /\ pc' = "error"
            /\ err' = from_jdx(ref_files[FirstRejected(ref_files, 1)]).kind
            /\ loads' = FirstRejected(ref_files, 1)
            /\ UNCHANGED ref_data
       ELSE /\ pc' = "validate"
            /\ ref_data' = [i \in 1..Len(ref_files) |-> from_jdx(ref_files[i]).s]
            /\ loads' = Len(ref_files)
            /\ UNCHANGED err
    /\ UNCHANGED <<config, ref_files, samples, k, r2, ref_pairs, solves,
                   file, out, sp, calls>>

\* lines 58-68
Validate ==
    /\ pc = "validate"
    /\ IF ValidationFails(ref_multiplier, config.selected_ref_names)
       THEN pc' = "error" /\ err' = "validation"
       ELSE pc' = "filter" /\ UNCHANGED err
    /\ UNCHANGED <<config, ref_files, samples, ref_data, k, ref_multiplier, r2,
                   ref_pairs, loads, solves, file, out, sp, calls>>

\* lines 70-71
FilterReferences ==
    /\ pc = "filter"
    /\ ref_data' = FilterRefs(ref_data, config.selected_ref_names)
    /\ pc' = "loop"
    /\ UNCHANGED <<config, ref_files, samples, k, ref_multiplier, r2,
                   ref_pairs, err, loads, solves, file, out, sp, calls>>

\* the loop without line 76: the local keeps what the last iteration left
ResetSkipped == ref_multiplier

\* line 76: ref_multiplier = config.ref_multiplier, at the top of every
\* iteration
ResetMultiplier == config.ref_multiplier

\* lines 74-75 for sample s
Corrected(s) ==
    IF config.baseline_correction_use THEN correct_linear_baseline(s)
    ELSE [ok |-> TRUE, self |-> s, kind |-> "none"]

\* the exception lines 80-82 raise before the solve, "none" if none
SolveError(refs, s) ==
    IF refs = <<>> THEN "ValueError"                   \* np.column_stack([])
    ELSE IF SomeRefUnreadable(refs) THEN "unit"        \* interpolate_to
    ELSE IF ~get_y_absorbance(s).ok THEN "unit"
    ELSE "none"

\* the exception lines 98-107 raise in manual mode, "none" if none
ManualError(refs, mult, s) ==
    IF ~get_y_absorbance(s).ok THEN "unit"
    ELSE IF SomeRefUnreadable(FirstN(refs, Len(mult))) THEN "unit"
    ELSE "none"

\* one iteration of the loop of line 73 ends in an exception
SampleRaises ==
    LET c == Corrected(samples[k + 1])
        e == IF ~c.ok THEN "unit"
             ELSE IF ResetMultiplier = None THEN SolveError(ref_data, c.self)
             ELSE ManualError(ref_data, ResetMultiplier[1], c.self)
    IN /\ e # "none"
       /\ pc' = "error"
       /\ err' = e
       /\ samples' = [samples EXCEPT ![k + 1] = c.self]
       /\ ref_multiplier' = IF c.ok THEN ResetMultiplier ELSE ref_multiplier
       /\ r2' = IF c.ok THEN None ELSE r2
       /\ UNCHANGED <<ref_pairs, solves, k>>

\* one iteration of the loop of line 73 runs to its end
SampleCompletes ==
    LET c == Corrected(samples[k + 1]) IN
    /\ c.ok
    /\ IF ResetMultiplier = None
       THEN SolveError(ref_data, c.self) = "none"
       ELSE ManualError(ref_data, ResetMultiplier[1], c.self) = "none"
    /\ \E solved \in LstsqOutcomes(Len(ref_data), get_y_absorbance(c.self).y) :
          LET fit == ResolveFit(ResetMultiplier,
                                config.clamp_negative_multipliers, solved)
          IN /\ ref_multiplier' = fit.ref_multiplier
             /\ r2' = fit.r2
             /\ solves' = solves + fit.solves
             /\ ref_pairs' = SortDesc(Zip(ref_data, fit.ref_multiplier[1]))
    /\ samples' = [samples EXCEPT ![k + 1] = c.self]
    /\ k' = k + 1
    /\ pc' = IF k + 1 = Len(samples) THEN "done" ELSE "loop"
    /\ UNCHANGED err

\* lines 73-139 for the next sample
AnalyzeSample ==
    /\ pc = "loop"
    /\ k < Len(samples)
    /\ SampleRaises \/ SampleCompletes
    /\ UNCHANGED <<config, ref_files, ref_data, loads, file, out, sp, calls>>

Next == GetReferences \/ Validate \/ FilterReferences \/ AnalyzeSample

Spec == Init /\ [][Next]_vars

(***************************************************************************)
(* The factories called on a file.                                         *)
(***************************************************************************)
\* zero or one header line for a label, over the given values
OptLine(label, vals) == {<<>>} \cup {<<H(label, v)>> : v \in vals}

JdxFilePool ==
    {t \o m \o u \o f \o d \o n \o yf \o data :
        t \in {<<H("TITLE", <<"A">>)>>},
        m \in OptLine("MOLFORM", {<<"C", " ", "O", "2">>, <<"C", "\t", "O", "2">>})
                \cup {<<H("molform", <<" ", "C", "O", "2", " ">>)>>},
        u \in OptLine("YUNITS", {<<"ABSORBANCE">>}),
        f \in OptLine("FIRSTX", {<<"0">>, <<"1">>}),
        d \in {<<H("DELTAX", v)>> : v \in {<<"1">>, <<"2">>, <<"x">>}},
        n \in OptLine("NPOINTS", {<<"1">>, <<"2">>, <<"-", "1">>,
                                  <<"2", ".", "0">>}),
        yf \in OptLine("YFACTOR", {<<"2">>}),
        data \in {<<>>,
                  << <<"1", " ", "5">> >>,
                  << <<"1", " ", "5", " ", "7">> >>,
                  << <<"1", " ", "5">>, <<"2", " ", "7">> >>,
                  << <<"1", " ", "x">> >>,
                  << <<"-", "1", " ", "5">> >>}}

CsvRowPool ==
    {<<"1", ",", "5">>, <<"2", ",", "7">>, <<" ", "3", " ", ",", "5", "\t">>,
     <<"1", ",", "5", ",", "9">>, <<"1">>, <<"x", ",", "5">>, <<"3", ",">>,
     <<" ">>}

CsvInputs ==
    [fmt : {"csv"}, stem : {<<"s">>},
     lines : {<< <<"wavenumber", ",", "absorbance">> >> \o rows :
                  rows \in SeqsUpTo(CsvRowPool, 0, MaxRows)},
     name : {None, Some(<<"n">>)},
     molform : {None, Some(CO2), Some(<<"C", " ", "O", "2">>)},
     header_size : {header_size_in_csv}]

JdxInputs ==
    [fmt : {"jdx"}, stem : {<<"r">>}, lines : JdxFilePool, name : {None},
     molform : {None}, header_size : {0}]

InitLoad ==
    /\ file \in JdxInputs \cup CsvInputs
    /\ out = Pending
    /\ config = [ref_multiplier |-> None, selected_ref_names |-> None,
                 clamp_negative_multipliers |-> TRUE,
                 baseline_correction_use |-> TRUE]
    /\ ref_files = <<>>
    /\ samples = <<>>
    /\ pc = "idle"
    /\ ref_data = <<>>
    /\ k = 0
    /\ ref_multiplier = None
    /\ r2 = None
    /\ ref_pairs = <<>>
    /\ err = "none"
    /\ loads = 0
    /\ solves = 0
    /\ sp = NewSpectrum
    /\ calls = <<>>

\* Spectrum.from_jdx(path)
CallFromJdx ==
    /\ file.fmt = "jdx"
    /\ out = Pending
    /\ out' = from_jdx(file.lines)
    /\ UNCHANGED <<analysisVars, file, sp, calls>>

\* Spectrum.from_csv(path, name, molform): header_size takes its default
CallFromCsv ==
    /\ file.fmt = "csv"
    /\ out = Pending
    /\ out' = from_csv(file.stem, file.lines, file.name, file.molform, file.header_size)
    /\ UNCHANGED <<analysisVars, file, sp, calls>>

NextLoad == CallFromJdx \/ CallFromCsv

SpecLoad == InitLoad /\ [][NextLoad]_vars

(***************************************************************************)
(* The methods called on a Spectrum object.                                *)
(***************************************************************************)
UnitPool == {<<"ABSORBANCE">>, <<"absorbance">>, <<"TRANSMITTANCE">>,
             <<"transmittance">>, <<"KUBELKA">>}

DataPool == {[n |-> <<"1">>, line |-> <<"1", " ", "2">>],
             [n |-> <<"2">>, line |-> <<"1", " ", "1", "0", " ", "1">>],
             [n |-> <<"2">>, line |-> <<"1", " ", "1", "0", "0", " ", "0">>],
             [n |-> <<"3">>, line |-> <<"1", " ", "1", " ", "2", " ", "3">>]}

\* spectra as from_jdx returns them, and the same built directly as
\* Spectrum(...) with yunits left unset
SpectrumPool ==
    LET loaded == {from_jdx(JdxHeader(<<"X">>, u, d.n) \o <<d.line>>).s :
                       u \in UnitPool, d \in DataPool}
    IN loaded \cup {[s EXCEPT !.yunits = None] : s \in loaded}

InitSpectrum ==
    /\ sp \in SpectrumPool
    /\ calls = <<>>
    /\ file = NoFile
    /\ out = Pending
    /\ config = [ref_multiplier |-> None, selected_ref_names |-> None,
                 clamp_negative_multipliers |-> TRUE,
                 baseline_correction_use |-> TRUE]
    /\ ref_files = <<>>
    /\ samples = <<>>
    /\ pc = "idle"
    /\ ref_data = <<>>
    /\ k = 0
    /\ ref_multiplier = None
    /\ r2 = None
    /\ ref_pairs = <<>>
    /\ err = "none"
    /\ loads = 0
    /\ solves = 0

\* the record of one method call: the object before and after, whether the
\* call returned (ok) or raised, and the values returned by the accessor
Call(op, before, ok, after, y) ==
    [op |-> op, before |-> before, ok |-> ok, after |-> after, y |-> y]

CallGetYAbsorbance ==
    /\ Len(calls) < MaxCalls
    /\ LET r == get_y_absorbance(sp)
       IN calls' = Append(calls, Call("get_y_absorbance", sp, r.ok, sp, r.y))
    /\ UNCHANGED <<analysisVars, file, out, sp>>

CallConvertToAbsorbance ==
    /\ Len(calls) < MaxCalls
    /\ LET r == convert_to_absorbance(sp)
       IN /\ sp' = r.self
          /\ calls' = Append(calls, Call("convert_to_absorbance", sp, r.ok, r.self, <<>>))
    /\ UNCHANGED <<analysisVars, file, out>>

CallCorrectLinearBaseline ==
    /\ Len(calls) < MaxCalls
    /\ LET r == correct_linear_baseline(sp)
       IN /\ sp' = r.self
          /\ calls' = Append(calls, Call("correct_linear_baseline", sp, r.ok, r.self, <<>>))
    /\ UNCHANGED <<analysisVars, file, out>>

NextSpectrum ==
    CallGetYAbsorbance \/ CallConvertToAbsorbance \/ CallCorrectLinearBaseline

SpecSpectrum == InitSpectrum /\ [][NextSpectrum]_vars

(***************************************************************************)
(* Properties of analyze_spectrum (checked under Spec).                    *)
(***************************************************************************)
\* C1: when manual multipliers come without an identifier list of the same
\* length, the validation error is raised before any reference file is
\* loaded and before any work on a sample.
C1_ValidationBeforeLoading ==
    err = "validation" => (loads = 0 /\ solves = 0 /\ k = 0)

\* C2: in manual mode every multiplier handed on is paired with the reference
\* its identifier names: each pair (reference, m) has an index i with
\* selected_ref_names[i] = reference.molform and ref_multiplier[i] = m,
\* whatever the order of the files.  Stated for the runs in which every
\* selected identifier has its reference file.
C2_PairingFollowsNames ==
    (/\ TruthyList(config.ref_multiplier)
     /\ k > 0
     /\ Len(ref_data) = Len(config.ref_multiplier[1])) =>
        \A j \in 1..Len(ref_pairs) :
            \E i \in 1..Len(config.ref_multiplier[1]) :
                /\ config.selected_ref_names[1][i] = ref_pairs[j].ref.molform[1]
                /\ config.ref_multiplier[1][i] = ref_pairs[j].mult

\* C3: in manual mode the multipliers of the fit are the configured list as
\* it is: never clamped, no least-squares solve is run and r2 stays None.
\* Every position the zip of line 104 covers carries its configured value.
C3_ManualVerbatim ==
    (config.ref_multiplier # None /\ pc # "start") =>
        /\ ref_multiplier = config.ref_multiplier
        /\ r2 = None
        /\ solves = 0
        /\ k > 0 =>
            /\ Len(ref_pairs) = MinInt(Len(ref_data), Len(config.ref_multiplier[1]))
            /\ \A i \in 1..Len(ref_pairs) :
                  \E j \in 1..Len(ref_pairs) :
                      /\ ref_pairs[j].ref = ref_data[i]
                      /\ ref_pairs[j].mult = config.ref_multiplier[1][i]

\* a sample was fitted in manual mode with a negative multiplier while
\* clamping is enabled
C3_Witness ==
    /\ config.ref_multiplier = Some(<<-3, 5>>)
    /\ config.clamp_negative_multipliers
    /\ k > 0
    /\ \E j \in 1..Len(ref_pairs) : ref_pairs[j].mult = -3

\* C4: in solve mode with clamping enabled every multiplier of a fitted
\* sample is a number >= 0.
C4_ClampedNonNegative ==
    (config.ref_multiplier = None /\ config.clamp_negative_multipliers /\ k > 0) =>
        \A i \in 1..Len(ref_multiplier[1]) :
            ref_multiplier[1][i] # NaN /\ ref_multiplier[1][i] >= 0

(***************************************************************************)
(* Properties of the Spectrum methods (checked under SpecSpectrum).        *)
(***************************************************************************)
Supported(s) ==
    s.yunits # None /\ UnitTag(s.yunits) \in {<<"ABSORBANCE">>, <<"TRANSMITTANCE">>}

\* C5: convert_to_absorbance raises exactly when the unit is unset or is
\* neither absorbance nor transmittance, which is exactly when
\* get_y_absorbance raises, and then leaves the spectrum unchanged.
C5_ConvertRaisesLikeAccessor ==
    \A i \in 1..Len(calls) :
        calls[i].op = "convert_to_absorbance" =>
            /\ calls[i].ok <=> Supported(calls[i].before)
            /\ calls[i].ok <=> get_y_absorbance(calls[i].before).ok
            /\ ~calls[i].ok => calls[i].after = calls[i].before

\* C6: convert_to_absorbance is idempotent on absorbance and transmittance
\* spectra: a second call right after the first returns and leaves y and the
\* unit tag as the first call left them.
C6_ConvertIdempotent ==
    \A i \in 1..(Len(calls) - 1) :
        (/\ calls[i].op = "convert_to_absorbance"
         /\ calls[i + 1].op = "convert_to_absorbance"
         /\ Supported(calls[i].before)) =>
            /\ calls[i].ok /\ calls[i + 1].ok
            /\ calls[i + 1].after = calls[i].after

\* a transmittance spectrum was converted twice in a row and the first call
\* changed its values
C6_Witness ==
    \E i \in 1..(Len(calls) - 1) :
        /\ calls[i].op = "convert_to_absorbance"
        /\ calls[i + 1].op = "convert_to_absorbance"
        /\ Supported(calls[i].before)
        /\ UnitTag(calls[i].before.yunits) = <<"TRANSMITTANCE">>
        /\ calls[i].after.y # calls[i].before.y

(***************************************************************************)
(* Properties of the factories (checked under SpecLoad).                   *)
(***************************************************************************)
CalledJdx == file.fmt = "jdx" /\ out # Pending

CalledCsv == file.fmt = "csv" /\ out # Pending

\* the required fields no header line of the file has set
Unset(lines) ==
    {required_fields_in_jdx[i] : i \in 1..Len(required_fields_in_jdx)}
        \ {key \in DOMAIN ScanOf(lines).s : ScanOf(lines).s[key] # None}

\* C7: from_jdx raises the missing-field error exactly when a required field
\* was not set by a header line, and the error names such a field; a file
\* that sets every required field (a zero included) passes this check, and a
\* file without a MOLFORM line fails naming molform.  Files on which a
\* number conversion raises first are left aside.
C7_MissingFieldExactlyWhenUnset ==
    (CalledJdx /\ ~ScanOf(file.lines).raised) =>
        /\ out.kind = "missing" <=> Unset(file.lines) # {}
        /\ Unset(file.lines) = {"molform"} => out.arg = <<"molform">>

\* the number of y tokens of a file: every token but the first of each line
\* that begins with a digit
RECURSIVE YTokenCount(_)
YTokenCount(lines) ==
    IF lines = <<>> THEN 0
    ELSE (IF IsDataLine(Strip(Head(lines)))
          THEN Len(SplitWs(Strip(Head(lines)))) - 1 ELSE 0)
         + YTokenCount(Tail(lines))

\* C8: a spectrum from_jdx returns has len(x) = len(y) = npoints > 0 and
\* x[i] = firstx + i*deltax; a file whose number of y tokens differs from
\* NPOINTS, or without points, is rejected.
C8_ReturnedArraysConsistent ==
    CalledJdx =>
        /\ out.ok =>
            /\ out.s.npoints[1] > 0
            /\ Len(out.s.x) = out.s.npoints[1]
            /\ Len(out.s.y) = out.s.npoints[1]
            /\ \A i \in 1..Len(out.s.x) :
                  out.s.x[i] = out.s.firstx[1] + (i - 1) * out.s.deltax[1]
        /\ (~ScanOf(file.lines).raised /\ ScanOf(file.lines).s.npoints # None
              /\ YTokenCount(file.lines) # ScanOf(file.lines).s.npoints[1]) => ~out.ok
        /\ YTokenCount(file.lines) = 0 => ~out.ok

\* from_jdx returned a spectrum of two points
C8_Witness ==
    /\ CalledJdx
    /\ out.ok
    /\ out.s.x = <<1, 2>>
    /\ Len(out.s.y) = 2

\* C9: the molecular formula of a spectrum either factory returns holds no
\* whitespace character of any kind.
C9_MolformWithoutWhitespace ==
    (out.ok /\ out.s.molform # None) =>
        \A i \in 1..Len(out.s.molform[1]) : out.s.molform[1][i] \notin Whitespace

\* the stripped non-blank rows behind the header
RECURSIVE DataRows(_)
DataRows(lines) ==
    IF lines = <<>> THEN <<>>
    ELSE (IF Strip(Head(lines)) = <<>> THEN <<>> ELSE <<Strip(Head(lines))>>)
         \o DataRows(Tail(lines))

ExactlyTwoNumeric(row) ==
    LET parts == SplitOn(row, ",")
    IN Len(parts) = 2 /\ FloatOk(parts[1]) /\ FloatOk(parts[2])

\* C10: from_csv accepts a data row only if it splits into exactly two
\* numeric fields; a file with a row that does not (too few fields, too many,
\* or non-numeric) returns no spectrum, and the row error raised carries the
\* text of the first such row.
C10_RowsExactlyTwoNumeric ==
    CalledCsv =>
        LET rows == DataRows(SkipHeader(file.lines, file.header_size))
            bad == {i \in 1..Len(rows) : ~ExactlyTwoNumeric(rows[i])}
        IN bad # {} =>
              /\ ~out.ok
              /\ out.kind \in {"row_columns", "row_nonnumeric"} =>
                    \E i \in bad : (\A j \in bad : i <= j) /\ out.arg = rows[i]


(***************************************************************************)
(* The baseline correction on degenerate geometry (under SpecSpectrum).    *)
(***************************************************************************)
\* first and last x-value of the spectrum are equal
DegenerateGeometry(s) == s.x # <<>> /\ s.x[1] = Last(s.x)

\* C11: correct_linear_baseline on a spectrum whose first and last x-values
\* are equal (a one-point spectrum included) raises, and never returns with
\* y overwritten by nan or infinite values.
C11_DegenerateBaselineFails ==
    \A i \in 1..Len(calls) :
        (/\ calls[i].op = "correct_linear_baseline"
         /\ Supported(calls[i].before)
         /\ DegenerateGeometry(calls[i].before)) =>
            /\ ~calls[i].ok
            /\ ~HasNaN(calls[i].after.y)


(***************************************************************************)
(* The fit mode of each sample (checked under Spec).                       *)
(***************************************************************************)
\* the multiplier vectors a solve on sample s can leave in ref_multiplier
OwnSolves(s) ==
    {Some(ClampPolicy(m, config.clamp_negative_multipliers)) :
        m \in LstsqOutcomes(Len(ref_data), get_y_absorbance(s).y)}

\* C12: every sample of one analyze_spectrum call has its fit mode resolved
\* from the configuration.  With config.ref_multiplier None each finished
\* sample had one least-squares solve of its own and its multipliers are a
\* result of the solve on its own data, not what the sample before left; with
\* a list each finished sample used that list unchanged; and no step changes
\* config.ref_multiplier.
C12_ModeResolvedPerSample ==
    [][/\ config'.ref_multiplier = config.ref_multiplier
       /\ (k' = k + 1 /\ config.ref_multiplier = None) =>
             /\ solves' = solves + 1
             /\ r2' # None
             /\ ref_multiplier' \in OwnSolves(samples'[k + 1])
       /\ (k' = k + 1 /\ config.ref_multiplier # None) =>
             /\ solves' = solves
             /\ r2' = None
             /\ ref_multiplier' = config.ref_multiplier]_vars

\* two samples were fitted in solve mode: the first one left nan multipliers
\* (a one-point sample after baseline correction), the second one has finite
\* multipliers of its own solve
C12_Witness ==
    /\ config.ref_multiplier = None
    /\ k = 2
    /\ solves = 2
    /\ HasNaN(samples[1].y)
    /\ ~HasNaN(samples[2].y)
    /\ ref_multiplier # None
    /\ ref_multiplier[1] # <<>>
    /\ ~HasNaN(ref_multiplier[1])


(***************************************************************************)
(* The order of the pairs handed to presentation (checked under Spec).     *)
(***************************************************************************)
\* a sample has been fitted and ref_multiplier, ref_pairs are those of its
\* iteration
Fitted == k > 0 /\ pc \in {"loop", "done"}

\* position in the active reference set of the reference of pair j
RefPosition(j) == CHOOSE i \in 1..Len(ref_data) : ref_data[i] = ref_pairs[j].ref

\* C13: the (reference, multiplier) pairs handed to presentation are the
\* zipped pairs, ordered by multiplier descending (no pair is followed by one
\* with a greater multiplier), and pairs with equal multipliers stand in the
\* order their references have in the active reference set.
C13_PairsSortedDescendingStable ==
    Fitted =>
        LET zipped == Zip(ref_data, ref_multiplier[1]) IN
        /\ Len(ref_pairs) = Len(zipped)
        /\ \A i \in 1..Len(zipped) : \E j \in 1..Len(ref_pairs) : ref_pairs[j] = zipped[i]
        /\ \A j \in 1..Len(ref_pairs) : \E i \in 1..Len(zipped) : zipped[i] = ref_pairs[j]
        /\ \A a, b \in 1..Len(ref_pairs) :
              a < b => ~FGreater(ref_pairs[b].mult, ref_pairs[a].mult)
        /\ \A a, b \in 1..Len(ref_pairs) :
              (a < b /\ ref_pairs[a].mult # NaN /\ ref_pairs[a].mult = ref_pairs[b].mult)
                  => RefPosition(a) < RefPosition(b)

\* two references were paired with equal multipliers and sorted
C13_Witness ==
    /\ Fitted
    /\ Len(ref_pairs) = 2
    /\ ref_pairs[1].ref # ref_pairs[2].ref
    /\ ref_pairs[1].mult # NaN
    /\ ref_pairs[1].mult = ref_pairs[2].mult

====
